---------------------------- MODULE Spec2Model ----------------------------
(***************************************************************************)
(* Three models, each with its own specification over its own variables    *)
(* (the variables of the other two stay at their idle values):             *)
(*                                                                         *)
(*   Spec       the geometry value types of src/utils/GeomUtil.h (PointT,  *)
(*              SizeT, RectT) as a calculator: one receiver rectangle r,   *)
(*              constructed and mutated by the actions, and the arguments  *)
(*              and the result of the last call;                           *)
(*   SpecEdit   the annotations editor windows of the tabs                 *)
(*              (StartEditAnnotations, EditAnnotationsWindow::CloseWindow);*)
(*   SpecSelect the detail controls of one annotations editor window       *)
(*              (CreateMainLayout, ListBoxSelectionChanged);               *)
(*   SpecTree   VisitTreeModelItems over a TreeItem tree.                  *)
(*                                                                         *)
(* Numeric kinds.  A value of kind "int" is a TLA+ integer.  A value of    *)
(* kind "double" is a fixed-point number counted in units of 2^-24 (half   *)
(* of FLT_EPSILON = 2^-23): the double 1.0 is One.  Every double of the    *)
(* model is a multiple of 2^-24 of magnitude below 2^7, so every sum and   *)
(* difference the code computes on it is exact in IEEE double arithmetic   *)
(* and the fixed-point arithmetic is what the code computes.  Integer      *)
(* coordinates stay far from INT_MIN/INT_MAX (no signed overflow).         *)
(***************************************************************************)
EXTENDS Integers, FiniteSets, Sequences, TLC

VARIABLES kind, r, pre, op, other, pt, pt2, size, ret, ok

\* TabInfo::editAnnotsWindow per tab, whether tab->AsFixed() is non-null, each
\* EditAnnotationsWindow object's life and its tab, the GUI thread's position
\* and a record of the handler that ran last
VARIABLES editAnnotsWindow, asFixed, winStatus, winTab, gui, lastCall

\* one editor window: its annotations, the visibility of its detail controls
\* and the idx of the last ListBoxSelectionChangedEvent
VARIABLES annotations, visible, selIdx

\* a TreeItem tree, the visitor's answers and the record of one visit
VARIABLES tree, visitor, visit

geomVars == <<kind, r, pre, op, other, pt, pt2, size, ret, ok>>
editVars == <<editAnnotsWindow, asFixed, winStatus, winTab, gui, lastCall>>
selectVars == <<annotations, visible, selIdx>>
treeVars == <<tree, visitor, visit>>

vars == <<geomVars, editVars, selectVars, treeVars>>

\* the values of a model's variables under the other models' specifications
GeomIdle ==
    /\ kind = "int" /\ op = "idle" /\ ok = FALSE
    /\ r = <<>> /\ pre = <<>> /\ other = <<>> /\ ret = <<>>
    /\ pt = <<>> /\ pt2 = <<>> /\ size = <<>>
EditIdle ==
    /\ editAnnotsWindow = <<>> /\ asFixed = <<>> /\ winStatus = <<>>
    /\ winTab = <<>> /\ gui = "idle" /\ lastCall = "idle"
SelectIdle == annotations = <<>> /\ visible = "idle" /\ selIdx = 0 - 1
TreeIdle == tree = <<>> /\ visitor = <<>> /\ visit = "idle"

---------------------------------------------------------------------------
(* Bounds of the explored inputs *)

\* x coordinates of int rectangles and points range over -NegX..MaxX
NegX == 1
MaxX == 2
\* y coordinates of int rectangles and points range over 0..MaxY
MaxY == 1
\* whole parts of the x coordinates of double rectangles: -MaxD..MaxD
MaxD == 1
\* Offset() and Inflate() are called with _x, _y in -MaxOff..MaxOff
MaxOff == 1
\* tabs of the application
NumTabs == 2
\* EditAnnotationsWindow objects ever allocated
MaxWindows == 3
\* annotations of the document shown in the editor
MaxAnnots == 3
\* Annotation::modificationDate ranges over 0..MaxDate
MaxDate == 1
\* items of a tree handed to VisitTreeModelItems
MaxNodes == 4

---------------------------------------------------------------------------
(* Numeric kinds *)

\* 1.0 in units of 2^-24
One == 2^24
\* 0.5, the constant added in ToInt()
Half == One \div 2
\* #define FLT_EPSILON 1.192092896e-07f, which is 2^-23: two units
FLT_EPSILON == 2

Kinds == {"int", "double"}

\* usual arithmetic conversion of a T to double (the T in `X() + 0.5`)
AsDouble(T, v) == IF T = "int" THEN v * One ELSE v

\* floor() and ceil() of a double, as an integer
Floor(v) == v \div One
Ceil(v) == 0 - ((0 - v) \div One)

\* the C cast (int)v of a double: truncation toward zero
Trunc(v) == IF v >= 0 THEN v \div One ELSE 0 - ((0 - v) \div One)

\* the C cast (S)v of a value v of kind T
Cast(T, S, v) ==
    IF T = S THEN v
    ELSE IF S = "double" THEN v * One
    ELSE Trunc(v)

---------------------------------------------------------------------------
(* PointT, SizeT *)

PointT(x, y) == [x |-> x, y |-> y]

\* empty() with the rule of SizeT and RectT
PointEmpty_EitherZero(p) == p.x = 0 \/ p.y = 0

\* bool PointT::empty()
PointEmpty(p) == p.x = 0 /\ p.y = 0

SizeT(dx, dy) == [dx |-> dx, dy |-> dy]

\* bool SizeT::IsEmpty()
SizeIsEmpty(s) == s.dx = 0 \/ s.dy = 0

---------------------------------------------------------------------------
(* RectT: two corners, min and max *)

\* RectT(): both corners value-initialised
RectDefault == [min |-> PointT(0, 0), max |-> PointT(0, 0)]

\* RectT(const RectT<T>& r)
RectCopy(rc) ==
    [min |-> PointT(rc.min.x, rc.min.y), max |-> PointT(rc.max.x, rc.max.y)]

\* RectT(T x, T y, T dx, T dy)
RectT(x, y, dx, dy) == [min |-> PointT(x, y), max |-> PointT(x + dx, y + dy)]

X(rc) == rc.min.x
Y(rc) == rc.min.y
Width(rc) == rc.max.x - rc.min.x
Height(rc) == rc.max.y - rc.min.y
Dx(rc) == rc.max.x - rc.min.x
Dy(rc) == rc.max.y - rc.min.y

Max(a, b) == IF a < b THEN b ELSE a
Min(a, b) == IF b < a THEN b ELSE a

\* FromXY() that negates a negative extent without moving the start
FromXY_NoSwap(xs, ys, xe, ye) ==
    LET dx0 == xe - xs
        dx1 == IF dx0 < 0 THEN 0 - dx0 ELSE dx0
        dy0 == ye - ys
        dy1 == IF dy0 < 0 THEN 0 - dy0 ELSE dy0
    IN  RectT(xs, ys, dx1, dy1)

\* static RectT FromXY(T xs, T ys, T xe, T ye)
FromXY(xs, ys, xe, ye) ==
    LET dx0 == xe - xs
        xs1 == IF dx0 < 0 THEN xe ELSE xs
        dx1 == IF dx0 < 0 THEN 0 - dx0 ELSE dx0
        dy0 == ye - ys
        ys1 == IF dy0 < 0 THEN ye ELSE ys
        dy1 == IF dy0 < 0 THEN 0 - dy0 ELSE dy0
    IN  RectT(xs1, ys1, dx1, dy1)

\* static RectT FromXY(PointT<T> TL, PointT<T> BR)
FromXYPoints(TL, BR) == FromXY(TL.x, TL.y, BR.x, BR.y)

\* Convert() that hands the max corner to the constructor as the extent
Convert_MaxCorner(T, S, rc) ==
    RectT(Cast(T, S, X(rc)), Cast(T, S, Y(rc)),
          Cast(T, S, rc.max.x), Cast(T, S, rc.max.y))

\* RectT<S> Convert() of a RectT<T>: casts x, y, dx, dy
Convert(T, S, rc) ==
    RectT(Cast(T, S, X(rc)), Cast(T, S, Y(rc)), Cast(T, S, Dx(rc)), Cast(T, S, Dy(rc)))

\* RectT<int> ToInt() of a RectT<T>: floor(v + 0.5) of x, y, dx, dy
ToInt(T, rc) ==
    RectT(Floor(AsDouble(T, X(rc)) + Half), Floor(AsDouble(T, Y(rc)) + Half),
          Floor(AsDouble(T, Dx(rc)) + Half), Floor(AsDouble(T, Dy(rc)) + Half))

\* Round() that takes the floor of the high edge too
Round_FloorHigh(T, rc) ==
    FromXY(Floor(AsDouble(T, X(rc)) + FLT_EPSILON),
           Floor(AsDouble(T, Y(rc)) + FLT_EPSILON),
           Floor(AsDouble(T, X(rc) + Dx(rc)) - FLT_EPSILON),
           Floor(AsDouble(T, Y(rc) + Dy(rc)) - FLT_EPSILON))

\* RectT<int> Round() of a RectT<T>
Round(T, rc) ==
    FromXY(Floor(AsDouble(T, X(rc)) + FLT_EPSILON),
           Floor(AsDouble(T, Y(rc)) + FLT_EPSILON),
           Ceil(AsDouble(T, X(rc) + Dx(rc)) - FLT_EPSILON),
           Ceil(AsDouble(T, Y(rc) + Dy(rc)) - FLT_EPSILON))

\* bool RectT::IsEmpty()
RectIsEmpty(rc) == Dx(rc) = 0 \/ Dy(rc) = 0

\* bool operator==(const RectT<T>& other)
RectEq(a, b) == X(a) = X(b) /\ Y(a) = Y(b) /\ Dx(a) = Dx(b) /\ Dy(a) = Dy(b)

\* Contains() that is open on the far edges
Contains_HalfOpen(rc, p) ==
    IF p.x < X(rc) THEN FALSE
    ELSE IF p.x >= X(rc) + Dx(rc) THEN FALSE
    ELSE IF p.y < Y(rc) THEN FALSE
    ELSE IF p.y >= Y(rc) + Dy(rc) THEN FALSE
    ELSE TRUE

\* bool Contains(PointT<T> pt)
Contains(rc, p) ==
    IF p.x < X(rc) THEN FALSE
    ELSE IF p.x > X(rc) + Dx(rc) THEN FALSE
    ELSE IF p.y < Y(rc) THEN FALSE
    ELSE IF p.y > Y(rc) + Dy(rc) THEN FALSE
    ELSE TRUE

\* Intersect() that starts at the receiver's corner instead of the larger start
Intersect_ReceiverStart(rc, o) ==
    LET _x == X(rc)
        _y == Y(rc)
        _dx == Min(X(rc) + Dx(rc), X(o) + Dx(o)) - _x
        _dy == Min(Y(rc) + Dy(rc), Y(o) + Dy(o)) - _y
    IN  IF _dx <= 0 \/ _dy <= 0 THEN RectDefault
        ELSE RectT(_x, _y, _dx, _dy)

\* Intersect() that tests the dimensions with < instead of <=
Intersect_StrictTest(rc, o) ==
    LET _x == Max(X(rc), X(o))
        _y == Max(Y(rc), Y(o))
        _dx == Min(X(rc) + Dx(rc), X(o) + Dx(o)) - _x
        _dy == Min(Y(rc) + Dy(rc), Y(o) + Dy(o)) - _y
    IN  IF _dx < 0 \/ _dy < 0 THEN RectDefault
        ELSE RectT(_x, _y, _dx, _dy)

\* RectT Intersect(RectT other)
Intersect(rc, o) ==
    LET _x == Max(X(rc), X(o))
        _y == Max(Y(rc), Y(o))
        _dx == Min(X(rc) + Dx(rc), X(o) + Dx(o)) - _x
        _dy == Min(Y(rc) + Dy(rc), Y(o) + Dy(o)) - _y
    IN  IF _dx <= 0 \/ _dy <= 0 THEN RectDefault
        ELSE RectT(_x, _y, _dx, _dy)

\* Union() that ends at the smaller of the end coordinates
Union_SmallerEnd(rc, o) ==
    IF Dx(rc) <= 0 /\ Dy(rc) <= 0 THEN o
    ELSE IF Dx(o) <= 0 /\ Dy(o) <= 0 THEN rc
    ELSE LET _x == Min(X(rc), X(o))
             _y == Min(Y(rc), Y(o))
             _dx == Min(X(rc) + Dx(rc), X(o) + Dx(o)) - _x
             _dy == Min(Y(rc) + Dy(rc), Y(o) + Dy(o)) - _y
         IN  RectT(_x, _y, _dx, _dy)

\* Union() whose shortcut fires when either extent is non-positive
Union_EitherAxis(rc, o) ==
    IF Dx(rc) <= 0 \/ Dy(rc) <= 0 THEN o
    ELSE IF Dx(o) <= 0 \/ Dy(o) <= 0 THEN rc
    ELSE LET _x == Min(X(rc), X(o))
             _y == Min(Y(rc), Y(o))
             _dx == Max(X(rc) + Dx(rc), X(o) + Dx(o)) - _x
             _dy == Max(Y(rc) + Dy(rc), Y(o) + Dy(o)) - _y
         IN  RectT(_x, _y, _dx, _dy)

\* RectT Union(RectT other); other.x() is read as other.X()
Union(rc, o) ==
    IF Dx(rc) <= 0 /\ Dy(rc) <= 0 THEN o
    ELSE IF Dx(o) <= 0 /\ Dy(o) <= 0 THEN rc
    ELSE LET _x == Min(X(rc), X(o))
             _y == Min(Y(rc), Y(o))
             _dx == Max(X(rc) + Dx(rc), X(o) + Dx(o)) - _x
             _dy == Max(Y(rc) + Dy(rc), Y(o) + Dy(o)) - _y
         IN  RectT(_x, _y, _dx, _dy)

\* void Offset(T _x, T _y)
Offset(rc, _x, _y) ==
    [rc EXCEPT !.min.x = @ + _x, !.min.y = @ + _y]

\* Inflate() that moves both corners the same way, as a translation does
Inflate_Shift(rc, _x, _y) ==
    [rc EXCEPT !.min.x = @ - _x, !.max.x = @ - _x,
               !.min.y = @ - _y, !.max.y = @ - _y]

\* void Inflate(T _x, T _y)
Inflate(rc, _x, _y) ==
    [rc EXCEPT !.min.x = @ - _x, !.max.x = @ + _x,
               !.min.y = @ - _y, !.max.y = @ + _y]

---------------------------------------------------------------------------
(* The explored inputs *)

XCoords == (0 - NegX)..MaxX
YCoords == 0..MaxY
Points == {PointT(x, y) : x \in XCoords, y \in YCoords}

\* fractional parts next to an integer, within FLT_EPSILON of it, and 0.5
Fracs == {0, 1, FLT_EPSILON, Half, One - FLT_EPSILON, One - 1}
DXCoords == {k * One + f : k \in (0 - MaxD)..MaxD, f \in Fracs}
DYCoords == {0, Half, One - FLT_EPSILON}

CoordsX(T) == IF T = "int" THEN XCoords ELSE DXCoords
CoordsY(T) == IF T = "int" THEN YCoords ELSE DYCoords

InRange(T, rc) ==
    /\ rc.min.x \in CoordsX(T) /\ rc.max.x \in CoordsX(T)
    /\ rc.min.y \in CoordsY(T) /\ rc.max.y \in CoordsY(T)

Rects(T) == {[min |-> PointT(x0, y0), max |-> PointT(x1, y1)] :
                x0 \in CoordsX(T), x1 \in CoordsX(T),
                y0 \in CoordsY(T), y1 \in CoordsY(T)}

---------------------------------------------------------------------------
(* State machine *)

\* what a call that takes or returns no such value leaves in its slot
Args(o, p, p2, s) == other' = o /\ pt' = p /\ pt2' = p2 /\ size' = s
NoPoint == PointT(0, 0)
NoSize == SizeT(0, 0)

\* the harness is about to call a member of a freshly constructed r
Ready == op = "RectT"

\* RectT<T> r(x, y, dx, dy), for every kind and every rectangle in range
Init ==
    /\ kind \in Kinds
    /\ \E rc \in Rects(kind) : r = RectT(X(rc), Y(rc), Dx(rc), Dy(rc))
    /\ pre = r
    /\ op = "RectT"
    /\ other = RectDefault
    /\ pt = NoPoint
    /\ pt2 = NoPoint
    /\ size = NoSize
    /\ ret = RectDefault
    /\ ok = FALSE
    /\ EditIdle /\ SelectIdle /\ TreeIdle

\* RectT<T> r2(r): the receiver as the last call left it is the next call's
CopyRect ==
    /\ ~Ready
    /\ r' = RectCopy(r)
    /\ pre' = r'
    /\ op' = "RectT"
    /\ Args(RectDefault, NoPoint, NoPoint, NoSize)
    /\ ret' = RectDefault
    /\ ok' = FALSE
    /\ UNCHANGED kind
    /\ UNCHANGED <<editVars, selectVars, treeVars>>

\* ret = RectT<int>::FromXY(pt, pt2)
DoFromXY ==
    /\ Ready
    /\ kind = "int"
    /\ \E p \in Points, p2 \in Points :
        /\ op' = "FromXY"
        /\ Args(RectDefault, p, p2, NoSize)
        /\ ret' = FromXYPoints(p, p2)
        /\ ok' = FALSE
        /\ UNCHANGED <<kind, r, pre>>
    /\ UNCHANGED <<editVars, selectVars, treeVars>>

\* ok = r.Contains(pt)
DoContains ==
    /\ Ready
    /\ kind = "int"
    /\ \E p \in Points :
        /\ op' = "Contains"
        /\ Args(RectDefault, p, NoPoint, NoSize)
        /\ ok' = Contains(r, p)
        /\ ret' = RectDefault
        /\ UNCHANGED <<kind, r, pre>>
    /\ UNCHANGED <<editVars, selectVars, treeVars>>

\* ret = r.Intersect(other)
DoIntersect ==
    /\ Ready
    /\ kind = "int"
    /\ \E o \in Rects("int") :
        /\ op' = "Intersect"
        /\ Args(o, NoPoint, NoPoint, NoSize)
        /\ ret' = Intersect(r, o)
        /\ ok' = FALSE
        /\ UNCHANGED <<kind, r, pre>>
    /\ UNCHANGED <<editVars, selectVars, treeVars>>

\* ret = r.Union(other)
DoUnion ==
    /\ Ready
    /\ kind = "int"
    /\ \E o \in Rects("int") :
        /\ op' = "Union"
        /\ Args(o, NoPoint, NoPoint, NoSize)
        /\ ret' = Union(r, o)
        /\ ok' = FALSE
        /\ UNCHANGED <<kind, r, pre>>
    /\ UNCHANGED <<editVars, selectVars, treeVars>>

\* r.Offset(pt.x, pt.y)
DoOffset ==
    /\ Ready
    /\ kind = "int"
    /\ \E _x \in (0 - MaxOff)..MaxOff, _y \in (0 - MaxOff)..MaxOff :
        /\ InRange(kind, Offset(r, _x, _y))
        /\ op' = "Offset"
        /\ pre' = r
        /\ r' = Offset(r, _x, _y)
        /\ Args(RectDefault, PointT(_x, _y), NoPoint, NoSize)
        /\ ret' = RectDefault
        /\ ok' = FALSE
        /\ UNCHANGED kind
    /\ UNCHANGED <<editVars, selectVars, treeVars>>

\* r.Inflate(pt.x, pt.y)
DoInflate ==
    /\ Ready
    /\ kind = "int"
    /\ \E _x \in (0 - MaxOff)..MaxOff, _y \in (0 - MaxOff)..MaxOff :
        /\ InRange(kind, Inflate(r, _x, _y))
        /\ op' = "Inflate"
        /\ pre' = r
        /\ r' = Inflate(r, _x, _y)
        /\ Args(RectDefault, PointT(_x, _y), NoPoint, NoSize)
        /\ ret' = RectDefault
        /\ ok' = FALSE
        /\ UNCHANGED kind
    /\ UNCHANGED <<editVars, selectVars, treeVars>>

\* ok = r.IsEmpty()
DoIsEmpty ==
    /\ Ready
    /\ op' = "IsEmpty"
    /\ Args(RectDefault, NoPoint, NoPoint, NoSize)
    /\ ok' = RectIsEmpty(r)
    /\ ret' = RectDefault
    /\ UNCHANGED <<kind, r, pre>>
    /\ UNCHANGED <<editVars, selectVars, treeVars>>

\* ok = PointT<int>(x, y).empty()
DoPointEmpty ==
    /\ Ready
    /\ kind = "int"
    /\ \E p \in Points :
        /\ op' = "PointT::empty"
        /\ Args(RectDefault, p, NoPoint, NoSize)
        /\ ok' = PointEmpty(p)
        /\ ret' = RectDefault
        /\ UNCHANGED <<kind, r, pre>>
    /\ UNCHANGED <<editVars, selectVars, treeVars>>

\* ok = SizeT<int>(dx, dy).IsEmpty()
DoSizeIsEmpty ==
    /\ Ready
    /\ kind = "int"
    /\ \E dx \in XCoords, dy \in YCoords :
        /\ op' = "SizeT::IsEmpty"
        /\ Args(RectDefault, NoPoint, NoPoint, SizeT(dx, dy))
        /\ ok' = SizeIsEmpty(SizeT(dx, dy))
        /\ ret' = RectDefault
        /\ UNCHANGED <<kind, r, pre>>
    /\ UNCHANGED <<editVars, selectVars, treeVars>>

\* ret = r.Round()
DoRound ==
    /\ Ready
    /\ op' = "Round"
    /\ Args(RectDefault, NoPoint, NoPoint, NoSize)
    /\ ret' = Round(kind, r)
    /\ ok' = FALSE
    /\ UNCHANGED <<kind, r, pre>>
    /\ UNCHANGED <<editVars, selectVars, treeVars>>

\* ret = r.ToInt()
DoToInt ==
    /\ Ready
    /\ op' = "ToInt"
    /\ Args(RectDefault, NoPoint, NoPoint, NoSize)
    /\ ret' = ToInt(kind, r)
    /\ ok' = FALSE
    /\ UNCHANGED <<kind, r, pre>>
    /\ UNCHANGED <<editVars, selectVars, treeVars>>

\* ret = r.Convert<int>()
DoConvertInt ==
    /\ Ready
    /\ op' = "Convert<int>"
    /\ Args(RectDefault, NoPoint, NoPoint, NoSize)
    /\ ret' = Convert(kind, "int", r)
    /\ ok' = FALSE
    /\ UNCHANGED <<kind, r, pre>>
    /\ UNCHANGED <<editVars, selectVars, treeVars>>

\* ret = r.Convert<double>().Convert<int>() of a RectT<int> r
DoConvertRoundTrip ==
    /\ Ready
    /\ kind = "int"
    /\ op' = "Convert<double>.Convert<int>"
    /\ Args(RectDefault, NoPoint, NoPoint, NoSize)
    /\ ret' = Convert("double", "int", Convert("int", "double", r))
    /\ ok' = FALSE
    /\ UNCHANGED <<kind, r, pre>>
    /\ UNCHANGED <<editVars, selectVars, treeVars>>

Next ==
    \/ CopyRect
    \/ DoFromXY
    \/ DoContains
    \/ DoIntersect
    \/ DoUnion
    \/ DoOffset
    \/ DoInflate
    \/ DoIsEmpty
    \/ DoPointEmpty
    \/ DoSizeIsEmpty
    \/ DoRound
    \/ DoToInt
    \/ DoConvertInt
    \/ DoConvertRoundTrip

Spec == Init /\ [][Next]_vars

---------------------------------------------------------------------------
(* Claims *)

\* an operand that Union() takes for empty: no positive extent on either axis
NoExtent(rc) == Dx(rc) <= 0 /\ Dy(rc) <= 0

\* a rectangle that is a single point
SinglePoint(rc) == Dx(rc) = 0 /\ Dy(rc) = 0

\* C1: after r.Offset(dx, dy) the width and the height are what they were
\* and X(), Y() have increased by dx, dy.
C1_OffsetPreservesSize ==
    op = "Offset" =>
        /\ Width(r) = Width(pre)
        /\ Height(r) = Height(pre)
        /\ X(r) = X(pre) + pt.x
        /\ Y(r) = Y(pre) + pt.y

\* C2 as stated: Union(a, b) contains every point of a and every point of b,
\* whatever the extents of a and b.
C2_UnionContainsOperands ==
    op = "Union" =>
        \A p \in Points :
            (Contains(r, p) \/ Contains(other, p)) => Contains(ret, p)

\* C2 as amended: Union(a, b) contains every point of each operand that is
\* not a single point (Dx() = 0 and Dy() = 0); the point of a single-point
\* operand is dropped by the shortcut.
C2_UnionContainsExtendedOperands ==
    op = "Union" =>
        \A p \in Points :
            \/ (Contains(r, p) /\ ~SinglePoint(r))
            \/ (Contains(other, p) /\ ~SinglePoint(other))
            => Contains(ret, p)

\* a union of two overlapping operands that is neither of them
C2_Witness ==
    /\ op = "Union"
    /\ ~NoExtent(r) /\ ~NoExtent(other)
    /\ ret # r /\ ret # other
    /\ \E p \in Points : Contains(r, p) /\ ~Contains(other, p)
    /\ \E p \in Points : Contains(other, p) /\ ~Contains(r, p)

C4_IntersectCommutes ==
    op = "Intersect" => RectEq(ret, Intersect(other, r))

\* an intersection of two different rectangles that is neither of them nor empty
C4_Witness ==
    /\ op = "Intersect"
    /\ ret # r /\ ret # other
    /\ Dx(ret) > 0 /\ Dy(ret) > 0

\* C5: a.Intersect(b) is the reference result: with x, y the larger starts
\* and ex, ey the smaller ends, the zero rectangle when ex - x <= 0 or
\* ey - y <= 0 and (x, y, ex - x, ey - y) otherwise; so no extent of it is
\* negative, rectangles with no common point give the zero rectangle, and
\* (0,0,10,10) and (5,5,10,10) give (5,5,5,5).
C5_IntersectIsReference ==
    op = "Intersect" =>
        LET x == IF X(r) >= X(other) THEN X(r) ELSE X(other)
            y == IF Y(r) >= Y(other) THEN Y(r) ELSE Y(other)
            ex == IF r.max.x <= other.max.x THEN r.max.x ELSE other.max.x
            ey == IF r.max.y <= other.max.y THEN r.max.y ELSE other.max.y
        IN  /\ IF ex - x <= 0 \/ ey - y <= 0
               THEN X(ret) = 0 /\ Y(ret) = 0 /\ Dx(ret) = 0 /\ Dy(ret) = 0
               ELSE X(ret) = x /\ Y(ret) = y /\ Dx(ret) = ex - x /\ Dy(ret) = ey - y
            /\ Dx(ret) >= 0 /\ Dy(ret) >= 0
            /\ (\A p \in Points : ~(Contains(r, p) /\ Contains(other, p)))
                   => ret = RectDefault
            /\ RectEq(Intersect(RectT(0, 0, 10, 10), RectT(5, 5, 10, 10)),
                      RectT(5, 5, 5, 5))

\* the scaled concrete case: two rectangles that overlap in part of their width
C5_Witness ==
    /\ op = "Intersect"
    /\ X(r) < X(other) /\ X(other) < r.max.x /\ r.max.x < other.max.x
    /\ Dy(ret) > 0
    /\ X(ret) = X(other) /\ Dx(ret) = r.max.x - X(other)

\* C6: FromXY(p1, p2) has Width() >= 0 and Height() >= 0, and equals
\* FromXY(p2, p1).
C6_FromXYNormalizes ==
    op = "FromXY" =>
        /\ Width(ret) >= 0
        /\ Height(ret) >= 0
        /\ RectEq(ret, FromXYPoints(pt2, pt))

\* corners given right-to-left on x and top-to-bottom on y
C6_Witness ==
    /\ op = "FromXY"
    /\ pt.x > pt2.x /\ pt.y < pt2.y
    /\ X(ret) = pt2.x /\ Y(ret) = pt.y

\* C7: r.Contains(p) exactly when X() <= p.x <= X() + Width() and
\* Y() <= p.y <= Y() + Height(); rect (0,0,10,10) contains (10,10).
C7_ContainsIsClosed ==
    op = "Contains" =>
        /\ ok <=> /\ X(r) <= pt.x /\ pt.x <= X(r) + Width(r)
                  /\ Y(r) <= pt.y /\ pt.y <= Y(r) + Height(r)
        /\ Contains(RectT(0, 0, 10, 10), PointT(10, 10))

\* the bottom-right corner of a rectangle with positive extents is contained
C7_Witness ==
    /\ op = "Contains"
    /\ Width(r) > 0 /\ Height(r) > 0
    /\ pt.x = X(r) + Width(r) /\ pt.y = Y(r) + Height(r)
    /\ ok

\* C8: Union() returns the other operand unchanged when the receiver has
\* Dx() <= 0 and Dy() <= 0, else the receiver unchanged when the other operand
\* has Dx() <= 0 and Dy() <= 0, else the rectangle from the smaller starts to
\* the larger ends; an operand empty on one axis only is not short-circuited.
C8_UnionShortcutNeedsBothAxes ==
    op = "Union" =>
        IF Dx(r) <= 0 /\ Dy(r) <= 0 THEN ret = other
        ELSE IF Dx(other) <= 0 /\ Dy(other) <= 0 THEN ret = r
        ELSE /\ X(ret) = (IF X(r) <= X(other) THEN X(r) ELSE X(other))
             /\ Y(ret) = (IF Y(r) <= Y(other) THEN Y(r) ELSE Y(other))
             /\ ret.max.x = (IF r.max.x >= other.max.x THEN r.max.x ELSE other.max.x)
             /\ ret.max.y = (IF r.max.y >= other.max.y THEN r.max.y ELSE other.max.y)

\* a receiver of width 0 and positive height widens the union
C8_Witness ==
    /\ op = "Union"
    /\ Dx(r) = 0 /\ Dy(r) > 0
    /\ Dx(other) > 0 /\ Dy(other) > 0
    /\ X(r) < X(other)
    /\ X(ret) = X(r) /\ ret # other /\ ret # r

\* C9: a Size is empty iff dx = 0 or dy = 0, a Rect iff Width() = 0 or
\* Height() = 0, a Point iff x = 0 and y = 0; a rectangle with negative
\* extents is not empty; Size(0,5) is empty and Point(0,5) is not.
C9_EmptinessRules ==
    /\ op = "SizeT::IsEmpty" => (ok <=> (size.dx = 0 \/ size.dy = 0))
    /\ op = "IsEmpty" => (ok <=> (Width(r) = 0 \/ Height(r) = 0))
    /\ op = "PointT::empty" => (ok <=> (pt.x = 0 /\ pt.y = 0))
    /\ (op = "IsEmpty" /\ Width(r) < 0 /\ Height(r) < 0) => ~ok
    /\ op \in {"SizeT::IsEmpty", "PointT::empty"} =>
           SizeIsEmpty(SizeT(0, 5)) /\ ~PointEmpty(PointT(0, 5))

\* Point(0, y) with y # 0 is not empty
C9_Witness ==
    /\ op = "PointT::empty"
    /\ pt.x = 0 /\ pt.y # 0
    /\ ~ok

C11_InflateIsSymmetric ==
    op = "Inflate" =>
        /\ r.min.x = pre.min.x - pt.x /\ r.min.y = pre.min.y - pt.y
        /\ r.max.x = pre.max.x + pt.x /\ r.max.y = pre.max.y + pt.y
        /\ Width(r) = Width(pre) + 2 * pt.x
        /\ Height(r) = Height(pre) + 2 * pt.y
        /\ r.min.x + r.max.x = pre.min.x + pre.max.x
        /\ r.min.y + r.max.y = pre.min.y + pre.max.y

\* a rectangle widened by 1 on each side and shrunk by 1 on top and bottom
C11_Witness ==
    /\ op = "Inflate"
    /\ pt.x = 1 /\ pt.y = 0 - 1
    /\ Width(pre) >= 0
    /\ Width(r) = Width(pre) + 2 /\ Height(r) = Height(pre) - 2

---------------------------------------------------------------------------
(* The annotations editor windows of the tabs *)

Tabs == 1..NumTabs
Windows == 1..MaxWindows

\* TabInfo::editAnnotsWindow == nullptr, EditAnnotationsWindow::tab == nullptr
NullWindow == 0
NullTab == 0

\* an EditAnnotationsWindow that was allocated and not deleted
Live(w) == winStatus[w] \in {"new", "shown"}

\* the objects `new EditAnnotationsWindow()` has returned so far
Allocated == {w \in Windows : winStatus[w] # "free"}

\* what `new EditAnnotationsWindow()` returns: an object that never existed
Fresh(w) == winStatus[w] = "free" /\ \A v \in Windows : winStatus[v] = "free" => w <= v

\* no tab has an editor; each tab shows a fixed-layout document or not
EditInit ==
    /\ GeomIdle /\ SelectIdle /\ TreeIdle
    /\ editAnnotsWindow = [t \in Tabs |-> NullWindow]
    /\ asFixed \in [Tabs -> BOOLEAN]
    /\ winStatus = [w \in Windows |-> "free"]
    /\ winTab = [w \in Windows |-> NullTab]
    /\ gui = [at |-> "idle", win |-> NullWindow, top |-> NullWindow]
    /\ lastCall = [name |-> "none", tab |-> NullTab, had |-> NullWindow, allocated |-> 0]

\* the record of a call of StartEditAnnotations(tab)
StartCall(tab) ==
    [name |-> "StartEditAnnotations", tab |-> tab,
     had |-> editAnnotsWindow[tab], allocated |-> Cardinality(Allocated)]

\* StartEditAnnotations() without the test of tab->editAnnotsWindow
StartEditAnnotations_NoCheck ==
    /\ gui.at = "idle"
    /\ \E tab \in Tabs :
        /\ lastCall' = StartCall(tab)
        /\ IF ~asFixed[tab]
           THEN UNCHANGED <<editAnnotsWindow, winStatus, winTab, gui>>
           ELSE \E w \in Windows :
                /\ Fresh(w)
                /\ winStatus' = [winStatus EXCEPT ![w] = "new"]
                /\ winTab' = [winTab EXCEPT ![w] = tab]
                /\ editAnnotsWindow' = [editAnnotsWindow EXCEPT ![tab] = w]
                /\ gui' = [gui EXCEPT !.at = "Create", !.win = w]
    /\ UNCHANGED asFixed
    /\ UNCHANGED <<geomVars, selectVars, treeVars>>

\* void StartEditAnnotations(TabInfo* tab), up to the call of win->Create()
StartEditAnnotations ==
    /\ gui.at = "idle"
    /\ \E tab \in Tabs :
        /\ lastCall' = StartCall(tab)
        /\ IF editAnnotsWindow[tab] # NullWindow
           THEN \* BringWindowToTop(hwnd); return
                /\ gui' = [gui EXCEPT !.top = editAnnotsWindow[tab]]
                /\ UNCHANGED <<editAnnotsWindow, winStatus, winTab>>
           ELSE IF ~asFixed[tab]
           THEN \* if (!dm) return
                UNCHANGED <<editAnnotsWindow, winStatus, winTab, gui>>
           ELSE \E w \in Windows :
                /\ Fresh(w)
                /\ winStatus' = [winStatus EXCEPT ![w] = "new"]
                /\ winTab' = [winTab EXCEPT ![w] = tab]
                /\ editAnnotsWindow' = [editAnnotsWindow EXCEPT ![tab] = w]
                /\ gui' = [gui EXCEPT !.at = "Create", !.win = w]
    /\ UNCHANGED asFixed
    /\ UNCHANGED <<geomVars, selectVars, treeVars>>

\* bool EditAnnotationsWindow::Create(), called last by StartEditAnnotations:
\* the main window is created, laid out and shown
Create ==
    /\ gui.at = "Create"
    /\ winStatus' = [winStatus EXCEPT ![gui.win] = "shown"]
    /\ gui' = [at |-> "idle", win |-> NullWindow, top |-> gui.win]
    /\ lastCall' = [lastCall EXCEPT !.name = "Create"]
    /\ UNCHANGED <<editAnnotsWindow, asFixed, winTab>>
    /\ UNCHANGED <<geomVars, selectVars, treeVars>>

\* void EditAnnotationsWindow::CloseWindow(), up to `delete this`
CloseWindow(w, handler) ==
    /\ editAnnotsWindow' = [editAnnotsWindow EXCEPT ![winTab[w]] = NullWindow]
    /\ gui' = [gui EXCEPT !.at = "delete", !.win = w]
    /\ lastCall' = [name |-> handler, tab |-> winTab[w],
                    had |-> editAnnotsWindow[winTab[w]],
                    allocated |-> Cardinality(Allocated)]
    /\ UNCHANGED <<asFixed, winStatus, winTab>>

\* void EditAnnotationsWindow::CloseHandler(WindowCloseEvent* ev)
CloseHandler ==
    /\ gui.at = "idle"
    /\ \E w \in Windows :
        /\ winStatus[w] = "shown"
        /\ CloseWindow(w, "CloseHandler")
    /\ UNCHANGED <<geomVars, selectVars, treeVars>>

\* void EditAnnotationsWindow::ButtonCancelHandler()
ButtonCancelHandler ==
    /\ gui.at = "idle"
    /\ \E w \in Windows :
        /\ winStatus[w] = "shown"
        /\ CloseWindow(w, "ButtonCancelHandler")
    /\ UNCHANGED <<geomVars, selectVars, treeVars>>

\* EditAnnotationsWindow::~EditAnnotationsWindow(), run by `delete this`
DeleteEditAnnotationsWindow ==
    /\ gui.at = "delete"
    /\ winStatus' = [winStatus EXCEPT ![gui.win] = "deleted"]
    /\ gui' = [at |-> "idle", win |-> NullWindow,
               top |-> IF gui.top = gui.win THEN NullWindow ELSE gui.top]
    /\ lastCall' = [lastCall EXCEPT !.name = "~EditAnnotationsWindow"]
    /\ UNCHANGED <<editAnnotsWindow, asFixed, winTab>>
    /\ UNCHANGED <<geomVars, selectVars, treeVars>>

EditNext ==
    \/ StartEditAnnotations
    \/ Create
    \/ CloseHandler
    \/ ButtonCancelHandler
    \/ DeleteEditAnnotationsWindow

SpecEdit == EditInit /\ [][EditNext]_vars

\* C12: a tab has at most one live editor; a tab never points at a deleted
\* window or at another tab's; a window that is allocated, created or shown
\* is already its tab's editAnnotsWindow, and a window being closed is not
\* any more (the reset comes before the delete); StartEditAnnotations on a
\* tab with an editor allocates nothing and leaves editAnnotsWindow as it
\* was, and on a tab without one (with a fixed-layout document) it points the
\* tab at an object that did not exist before.
C12_OneEditorPerTab ==
    /\ \A t \in Tabs : Cardinality({w \in Windows : Live(w) /\ winTab[w] = t}) <= 1
    /\ \A t \in Tabs :
        editAnnotsWindow[t] # NullWindow =>
            Live(editAnnotsWindow[t]) /\ winTab[editAnnotsWindow[t]] = t
    /\ \A w \in Windows :
        Live(w) =>
            IF gui.at = "delete" /\ gui.win = w
            THEN editAnnotsWindow[winTab[w]] = NullWindow
            ELSE editAnnotsWindow[winTab[w]] = w
    /\ gui.at = "Create" =>
            winStatus[gui.win] = "new" /\ editAnnotsWindow[winTab[gui.win]] = gui.win
    /\ (lastCall.name = "StartEditAnnotations" /\ lastCall.had # NullWindow) =>
            /\ editAnnotsWindow[lastCall.tab] = lastCall.had
            /\ Cardinality(Allocated) = lastCall.allocated
            /\ gui.at = "idle"
    /\ (lastCall.name = "StartEditAnnotations" /\ lastCall.had = NullWindow
            /\ asFixed[lastCall.tab]) =>
            /\ editAnnotsWindow[lastCall.tab] # NullWindow
            /\ winStatus[editAnnotsWindow[lastCall.tab]] = "new"
            /\ Cardinality(Allocated) = lastCall.allocated + 1

\* a tab whose first editor was closed and deleted has a second one shown, and
\* StartEditAnnotations was called on it again
C12_Witness ==
    /\ lastCall.name = "StartEditAnnotations"
    /\ lastCall.had # NullWindow
    /\ winStatus[lastCall.had] = "shown"
    /\ \E w \in Windows : winStatus[w] = "deleted" /\ winTab[w] = lastCall.tab

---------------------------------------------------------------------------
(* The detail controls of one annotations editor window.  The controls'    *)
(* texts and the layout's geometry are not part of the model.               *)

\* the controls whose visibility EditAnnotationsWindow sets
Statics == {"staticRect", "staticAuthor", "staticModificationDate", "staticPopup",
            "staticContents", "staticIcon", "staticColor", "staticSpacer"}
Controls == Statics \cup {"editContents", "dropDownIcon", "dropDownColor", "buttonDelete"}

\* Annotation, as far as the editor reads it to show or hide a control
Authors == {"", "A"}
Annotations == [author : Authors, modificationDate : 0..MaxDate]

\* Vec<Annotation*> of up to MaxAnnots annotations
AnnotationVecs == UNION {[1..n -> Annotations] : n \in 0..MaxAnnots}

\* Annotation* annot: nullptr, or the element of `annotations` it points at
NullAnnot == 0

\* void SetIsVisible(bool) of control c
SetIsVisible(vis, c, isVisible) == [vis EXCEPT ![c] = isVisible]

\* CreateStatic(parent, sv): a new StaticCtrl, hidden; also the edit, drop-down
\* and button controls that CreateMainLayout creates and hides
CreateStatic(vis, c) == vis @@ (c :> FALSE)

\* static void ShowAnnotationRect(EditAnnotationsWindow* w, Annotation* annot)
ShowAnnotationRect(vis, annot) ==
    SetIsVisible(vis, "staticRect", annot # NullAnnot)

\* ShowAnnotationAuthor() that does not look at the author
ShowAnnotationAuthor_AnyAuthor(vis, annot) ==
    SetIsVisible(vis, "staticAuthor", annot # NullAnnot)

\* static void ShowAnnotationAuthor(EditAnnotationsWindow* w, Annotation* annot)
ShowAnnotationAuthor(vis, annot) ==
    SetIsVisible(vis, "staticAuthor",
                 annot # NullAnnot /\ annotations[annot].author # "")

\* static void ShowAnnotationModificationDate(...)
ShowAnnotationModificationDate(vis, annot) ==
    SetIsVisible(vis, "staticModificationDate",
                 annot # NullAnnot /\ annotations[annot].modificationDate # 0)

\* static void ShowAnnotationsPopup(...): isVisible stays false
ShowAnnotationsPopup(vis, annot) ==
    SetIsVisible(vis, "staticPopup", FALSE)

\* static void ShowAnnotationsContents(...)
ShowAnnotationsContents(vis, annot) ==
    SetIsVisible(SetIsVisible(vis, "staticContents", annot # NullAnnot),
                 "editContents", annot # NullAnnot)

\* static void ShowAnnotationsIcon(...)
ShowAnnotationsIcon(vis, annot) ==
    SetIsVisible(SetIsVisible(vis, "staticIcon", annot # NullAnnot),
                 "dropDownIcon", annot # NullAnnot)

\* static void ShowAnnotationsColor(...)
ShowAnnotationsColor(vis, annot) ==
    SetIsVisible(SetIsVisible(vis, "staticColor", annot # NullAnnot),
                 "dropDownColor", annot # NullAnnot)

\* the window object exists with its annotations, its controls are nullptr
SelectInit ==
    /\ GeomIdle /\ EditIdle /\ TreeIdle
    /\ annotations \in AnnotationVecs
    /\ visible = <<>>
    /\ selIdx = [event |-> FALSE, idx |-> 0 - 1]

\* void EditAnnotationsWindow::CreateMainLayout(), in the order of the source
CreateMainLayout ==
    /\ DOMAIN visible = {}
    /\ visible' =
        LET v1 == CreateStatic(visible, "staticRect")
            v2 == CreateStatic(v1, "staticAuthor")
            v3 == CreateStatic(v2, "staticModificationDate")
            v4 == CreateStatic(v3, "staticPopup")
            v5 == CreateStatic(v4, "staticContents")
            v6 == CreateStatic(v5, "editContents")
            v7 == CreateStatic(v6, "staticIcon")
            v8 == CreateStatic(v7, "dropDownIcon")
            v9 == CreateStatic(v8, "staticColor")
            v10 == CreateStatic(v9, "dropDownColor")
            v11 == CreateStatic(v10, "buttonDelete")
        IN  CreateStatic(v11, "staticSpacer")
    /\ UNCHANGED <<annotations, selIdx>>
    /\ UNCHANGED <<geomVars, editVars, treeVars>>

\* void EditAnnotationsWindow::ListBoxSelectionChanged(ev), ev->idx = itemNo
ListBoxSelectionChanged ==
    /\ DOMAIN visible = Controls
    /\ \E itemNo \in (0 - 1)..(Len(annotations) - 1) :
        LET annot == IF itemNo >= 0 THEN itemNo + 1 ELSE NullAnnot
            v1 == ShowAnnotationRect(visible, annot)
            v2 == ShowAnnotationAuthor(v1, annot)
            v3 == ShowAnnotationModificationDate(v2, annot)
            v4 == ShowAnnotationsPopup(v3, annot)
            v5 == ShowAnnotationsContents(v4, annot)
            v6 == ShowAnnotationsIcon(v5, annot)
            v7 == ShowAnnotationsColor(v6, annot)
        IN  /\ visible' = SetIsVisible(v7, "buttonDelete", annot # NullAnnot)
            /\ selIdx' = [event |-> TRUE, idx |-> itemNo]
    /\ UNCHANGED annotations
    /\ UNCHANGED <<geomVars, editVars, treeVars>>

SelectNext ==
    \/ CreateMainLayout
    \/ ListBoxSelectionChanged

SpecSelect == SelectInit /\ [][SelectNext]_vars

\* the controls that show the details of the selected annotation
DetailControls == Controls \ {"staticSpacer"}

\* C13: once the layout is created and before any selection event every
\* detail control is hidden; after a selection event with idx < 0 they all
\* are; after one with idx >= 0 the rect, contents, icon and colour controls
\* and the Delete button are visible, the author label iff the author is not
\* empty, the date label iff modificationDate # 0, and the popup label is
\* hidden.
C13_ControlsReflectSelection ==
    DOMAIN visible = Controls =>
        IF ~selIdx.event \/ selIdx.idx < 0
        THEN \A c \in DetailControls : ~visible[c]
        ELSE /\ \A c \in {"staticRect", "staticContents", "editContents",
                          "staticIcon", "dropDownIcon", "staticColor",
                          "dropDownColor", "buttonDelete"} : visible[c]
             /\ visible["staticAuthor"] <=> annotations[selIdx.idx + 1].author # ""
             /\ visible["staticModificationDate"] <=>
                    annotations[selIdx.idx + 1].modificationDate # 0
             /\ ~visible["staticPopup"]

\* the second annotation is selected: it has a date and no author
C13_Witness ==
    /\ DOMAIN visible = Controls
    /\ selIdx.event /\ selIdx.idx = 1
    /\ annotations[2].author = "" /\ annotations[2].modificationDate # 0
    /\ annotations[1].author # ""
    /\ visible["staticModificationDate"] /\ ~visible["staticAuthor"]
    /\ visible["buttonDelete"]

---------------------------------------------------------------------------
(* VisitTreeModelItems over a tree of TreeItems.  The items are 1..n, the   *)
(* root is item 1; tree[ti] is the sequence of ti's children, so that       *)
(* ChildAt(ti, i) is its element i + 1.  visitor[ti] is what the visitor    *)
(* returns for ti.  Every item handed to the visit is non-null.             *)

\* TreeItem* nullptr
NullItem == 0

\* the root item handed to VisitTreeModelItems
Root == 1

\* the elements of a set of items as a sequence, smallest first
RECURSIVE SetToSeq(_)
SetToSeq(S) ==
    IF S = {} THEN <<>>
    ELSE LET m == CHOOSE x \in S : \A y \in S : x <= y
         IN  <<m>> \o SetToSeq(S \ {m})

\* the trees of n items: every item but the root hangs under an earlier item
Trees(n) ==
    {[p \in 1..n |-> SetToSeq({c \in 2..n : par[c] = p})] :
        par \in {f \in [2..n -> 1..n] : \A c \in 2..n : f[c] < c}}

\* the items of the tree
Items == DOMAIN tree

\* int TreeItem::ChildCount()
ChildCount(ti) == Len(tree[ti])

\* TreeItem* TreeItem::ChildAt(int i)
ChildAt(ti, i) == tree[ti][i + 1]

RECURSIVE VisitTreeItemRec(_, _)
RECURSIVE VisitChildren(_, _, _)
RECURSIVE VisitTreeItemRec_GoOn(_, _)
RECURSIVE VisitChildren_GoOn(_, _, _)

\* a child loop that does not return when a child's visit returned false
VisitChildren_GoOn(ti, i, seen) ==
    IF i < ChildCount(ti)
    THEN LET rec == VisitTreeItemRec_GoOn(ChildAt(ti, i), seen)
         IN  [VisitChildren_GoOn(ti, i + 1, rec.seen) EXCEPT
                 !.cont = @ /\ rec.cont]
    ELSE [cont |-> TRUE, seen |-> seen]

\* VisitTreeItemRec() with that loop
VisitTreeItemRec_GoOn(ti, seen) ==
    IF ti # NullItem /\ ~visitor[ti]
    THEN [cont |-> FALSE, seen |-> Append(seen, ti)]
    ELSE VisitChildren_GoOn(ti, 0, IF ti # NullItem THEN Append(seen, ti) ELSE seen)

\* for (int i = 0; i < n; i++) of VisitTreeItemRec, from index i on; seen is
\* the sequence of items the visitor was called with so far
VisitChildren(ti, i, seen) ==
    IF i < ChildCount(ti)
    THEN LET child == ChildAt(ti, i)
             rec == VisitTreeItemRec(child, seen)
         IN  IF ~rec.cont
             THEN [cont |-> FALSE, seen |-> rec.seen]
             ELSE VisitChildren(ti, i + 1, rec.seen)
    ELSE [cont |-> TRUE, seen |-> seen]

\* static bool VisitTreeItemRec(TreeItem* ti, const TreeItemVisitor& visitor)
VisitTreeItemRec(ti, seen) ==
    IF ti # NullItem /\ ~visitor[ti]
    THEN [cont |-> FALSE, seen |-> Append(seen, ti)]
    ELSE VisitChildren(ti, 0, IF ti # NullItem THEN Append(seen, ti) ELSE seen)

\* bool VisitTreeModelItems(TreeItem* ti, const TreeItemVisitor& visitor)
VisitTreeModelItems(ti) == VisitTreeItemRec(ti, <<>>)

\* a tree and a visitor, no visit made yet
TreeInit ==
    /\ GeomIdle /\ EditIdle /\ SelectIdle
    /\ \E n \in 1..MaxNodes :
        /\ tree \in Trees(n)
        /\ visitor \in [1..n -> BOOLEAN]
    /\ visit = [done |-> FALSE, seen |-> <<>>, ret |-> FALSE]

\* a caller runs VisitTreeModelItems(root, visitor)
DoVisitTreeModelItems ==
    /\ ~visit.done
    /\ LET res == VisitTreeModelItems(Root)
       IN  visit' = [done |-> TRUE, seen |-> res.seen, ret |-> res.cont]
    /\ UNCHANGED <<tree, visitor>>
    /\ UNCHANGED <<geomVars, editVars, selectVars>>

TreeNext == DoVisitTreeModelItems

SpecTree == TreeInit /\ [][TreeNext]_vars

\* the item that has ti as a child
Parent(ti) == CHOOSE p \in Items : \E i \in 1..Len(tree[p]) : tree[p][i] = ti

\* the child indices on the way from the root down to ti
RECURSIVE PathTo(_)
PathTo(ti) ==
    IF ti = Root THEN <<>>
    ELSE LET p == Parent(ti)
             i == CHOOSE k \in 1..Len(tree[p]) : tree[p][k] = ti
         IN  Append(PathTo(p), i - 1)

\* a comes before b in pre-order: a is a proper ancestor of b, or where their
\* ways from the root part a's way takes the child of smaller index
PreOrderBefore(a, b) ==
    LET pa == PathTo(a)
        pb == PathTo(b)
    IN  \E k \in 0..Len(pa) :
            /\ k <= Len(pb)
            /\ \A j \in 1..k : pa[j] = pb[j]
            /\ \/ k = Len(pa) /\ k < Len(pb)
               \/ k < Len(pa) /\ k < Len(pb) /\ pa[k + 1] < pb[k + 1]

\* C14: a finished visit called the visitor in pre-order (an item before its
\* children, children in index order), with each item at most once, on exactly
\* the items that no item answering false comes before, and returned true iff
\* the visitor answers true for every item of the tree.
C14_VisitIsPreOrderUntilFalse ==
    visit.done =>
        LET seen == visit.seen
        IN  /\ \A i, j \in 1..Len(seen) : i < j => PreOrderBefore(seen[i], seen[j])
            /\ \A i, j \in 1..Len(seen) : seen[i] = seen[j] => i = j
            /\ {seen[i] : i \in 1..Len(seen)} =
                   {ti \in Items : \A b \in Items : PreOrderBefore(b, ti) => visitor[b]}
            /\ \A i \in 1..Len(seen) : ~visitor[seen[i]] => i = Len(seen)
            /\ visit.ret <=> \A ti \in Items : visitor[ti]

\* the visitor answered false for a grandchild of the root, met before a
\* second child of the root that therefore was not visited
C14_Witness ==
    /\ visit.done /\ ~visit.ret
    /\ Len(visit.seen) = 3
    /\ Len(PathTo(visit.seen[3])) = 2
    /\ \E ti \in Items :
        /\ ti < visit.seen[3]
        /\ \A i \in 1..Len(visit.seen) : visit.seen[i] # ti

===========================================================================
